---- MODULE Spec2Model ----
(***************************************************************************)
(* MediScrap: MedicoverScraper (src/main.py) and its logger                *)
(* (src/logger.py).                                                        *)
(*                                                                         *)
(* Strings are sequences of Unicode code points, so that Python's          *)
(* str.replace, str.lower, str.strip, unidecode and the code-point order   *)
(* used by sorted() are computed and not assumed.                          *)
(***************************************************************************)
EXTENDS Integers, Sequences, FiniteSets, TLC

(***************************************************************************)
(* Bounds of the model.                                                    *)
(***************************************************************************)
\* largest pagination_limit the constructor is given
MaxPaginationLimit == 4
\* most pages of one run that are irregular: the request fails, or no
\* element of the page has a name
MaxIrregularPages == 1
\* longest list of labels the facet endpoint returns in ResolveSpec
MaxLabels == 2
\* longest label format_entry is given in NormalizeSpec
MaxEntryLen == 3

(***************************************************************************)
(* Code points used by the string operations of src/main.py.               *)
(***************************************************************************)
SPACE == 32
HYPHEN == 45
SLASH == 47
PIPE == 124

(***************************************************************************)
(* Severities of the logging module, and the custom NOTE level.            *)
(***************************************************************************)
INFO == 20
NOTE == 25
ERROR == 40
\* logger.setLevel(logging.INFO)
LoggerLevel == INFO

(***************************************************************************)
(* Python string primitives.                                               *)
(***************************************************************************)
RECURSIVE Replace(_, _, _)
\* str.replace(old, new): leftmost, non-overlapping occurrences (old # "")
Replace(s, old, new) ==
    IF Len(s) < Len(old) THEN s
    ELSE IF SubSeq(s, 1, Len(old)) = old
         THEN new \o Replace(SubSeq(s, Len(old) + 1, Len(s)), old, new)
         ELSE <<s[1]>> \o Replace(Tail(s), old, new)

\* str.lower() on one code point (ASCII range: unidecode ran before it)
LowerChar(c) == IF c >= 65 /\ c <= 90 THEN c + 32 ELSE c

Lower(s) == [k \in 1..Len(s) |-> LowerChar(s[k])]

\* str.strip(): the whitespace code points that can occur in the model
IsSpace(c) == c \in {9, 10, 13, SPACE}

RECURSIVE LStrip(_)
LStrip(s) == IF s # <<>> /\ IsSpace(s[1]) THEN LStrip(Tail(s)) ELSE s

RECURSIVE RStrip(_)
RStrip(s) ==
    IF s # <<>> /\ IsSpace(s[Len(s)]) THEN RStrip(SubSeq(s, 1, Len(s) - 1)) ELSE s

Strip(s) == RStrip(LStrip(s))

\* unidecode of one code point: ASCII is kept, the rest is transliterated
UnidecodeChar(c) ==
    IF c < 128 THEN <<c>>
    ELSE CASE c = 211 -> <<79>>        \* O acute   -> O
           [] c = 223 -> <<115, 115>>  \* sharp s   -> ss
           [] c = 243 -> <<111>>       \* o acute   -> o
           [] c = 321 -> <<76>>        \* L stroke  -> L
           [] c = 322 -> <<108>>       \* l stroke  -> l
           [] c = 324 -> <<110>>       \* n acute   -> n
           [] c = 378 -> <<122>>       \* z acute   -> z
           [] c = 12288 -> <<32>>      \* ideographic space -> space
           [] c = 65295 -> <<47>>      \* fullwidth solidus -> /
           [] OTHER -> <<>>

RECURSIVE Unidecode(_)
Unidecode(s) ==
    IF s = <<>> THEN <<>> ELSE UnidecodeChar(s[1]) \o Unidecode(Tail(s))

\* the order sorted() uses on str: lexicographic by code point
RECURSIVE StrLess(_, _)
StrLess(a, b) ==
    IF b = <<>> THEN FALSE
    ELSE IF a = <<>> THEN TRUE
    ELSE IF a[1] # b[1] THEN a[1] < b[1]
    ELSE StrLess(Tail(a), Tail(b))

RECURSIVE SortedStrs_descending(_)
\* mutant: sorted(list(S), reverse=True)
SortedStrs_descending(S) ==
    IF S = {} THEN <<>>
    ELSE LET m == CHOOSE x \in S : \A y \in S \ {x} : StrLess(y, x)
         IN  <<m>> \o SortedStrs_descending(S \ {m})

RECURSIVE SortedStrs(_)
\* sorted(list(S)) for a set S of str
SortedStrs(S) ==
    IF S = {} THEN <<>>
    ELSE LET m == CHOOSE x \in S : \A y \in S \ {x} : StrLess(x, y)
         IN  <<m>> \o SortedStrs(S \ {m})

(***************************************************************************)
(* MedicoverScraper.format_entry                                           *)
(***************************************************************************)
\* mutant: .lower() is left out
format_entry_no_lower(entry) ==
    Replace(Replace(Replace(Unidecode(entry),
                            <<SPACE, HYPHEN, SPACE>>, <<HYPHEN>>),
                    <<SPACE>>, <<HYPHEN>>),
            <<SLASH>>, <<HYPHEN>>)

\* mutant: the slash is replaced before unidecode runs:
\* unidecode(entry.replace('/', '-')).replace(' - ', '-').replace(' ', '-').lower()
format_entry_slash_first(entry) ==
    Lower(Replace(Replace(Unidecode(Replace(entry, <<SLASH>>, <<HYPHEN>>)),
                          <<SPACE, HYPHEN, SPACE>>, <<HYPHEN>>),
                  <<SPACE>>, <<HYPHEN>>))

format_entry(entry) ==
    Lower(Replace(Replace(Replace(Unidecode(entry),
                                  <<SPACE, HYPHEN, SPACE>>, <<HYPHEN>>),
                          <<SPACE>>, <<HYPHEN>>),
                  <<SLASH>>, <<HYPHEN>>))

(***************************************************************************)
(* The logger of src/logger.py: a record is kept when its level passes     *)
(* Logger.isEnabledFor.                                                    *)
(***************************************************************************)
isEnabledFor(level) == level >= LoggerLevel

Event(level, event, endpoint, city, profession, page) ==
    [level |-> level, event |-> event, endpoint |-> endpoint,
     city |-> city, profession |-> profession, page |-> page]

\* Logger._log through the handlers (both handlers accept INFO and above)
Emit(lg, ev) == IF isEnabledFor(ev.level) THEN Append(lg, ev) ELSE lg

\* logger.note(message), the method src/logger.py adds to logging.Logger
note(lg, ev) == IF isEnabledFor(NOTE) THEN Emit(lg, ev) ELSE lg

(***************************************************************************)
(* Responses of the facet endpoint (requests.post + response.text).        *)
(*   outcome : "ConnectionError" (requests.post raises), "HTTPError"       *)
(*             (raise_for_status raises), "ok"                              *)
(*   body    : what json.loads makes of response.text: "invalid" (not      *)
(*             JSON), "array" (a JSON array at top level), "object"         *)
(*   d       : the type of the field d of the object: "absent", "null",    *)
(*             "number", "string", "array", "object"                        *)
(*   items   : what iterating d yields (the elements of an array, the      *)
(*             characters of a string, the keys of an object), each either *)
(*             a str or not                                                *)
(***************************************************************************)
FacetResp(outcome, body, d, items) ==
    [outcome |-> outcome, body |-> body, d |-> d, items |-> items]

Str(s) == [isstr |-> TRUE, s |-> s]
NotStr == [isstr |-> FALSE, s |-> <<>>]

NoResp == FacetResp("none", "none", "absent", <<>>)

Labels(labels) ==
    FacetResp("ok", "object", "array", [k \in 1..Len(labels) |-> Str(labels[k])])

\* upstream labels: "Łódź", "lodz", "Ełk", "A - B", "a/b", "A  B"
L_Lodz == <<321, 243, 100, 378>>
L_lodz == <<108, 111, 100, 122>>
L_Elk == <<69, 322, 107>>
L_A_B == <<65, SPACE, HYPHEN, SPACE, 66>>
L_a_b == <<97, SLASH, 98>>
L_A__B == <<65, SPACE, SPACE, 66>>

UpstreamLabels == {L_Lodz, L_lodz, L_Elk, L_A_B, L_a_b, L_A__B}

SeqsUpTo(S, n) == UNION {[1..k -> S] : k \in 0..n}

\* the failures of the facet endpoint the spec names: transport error,
\* non-success status, unparseable body
TransportFailures ==
    { FacetResp("ConnectionError", "none", "absent", <<>>),
      FacetResp("HTTPError", "none", "absent", <<>>) }

UnparseableBody == FacetResp("ok", "invalid", "absent", <<>>)

\* parsed bodies that are not an object with a field d holding strings
MisshapenBodies ==
    { FacetResp("ok", "array", "absent", <<>>),
      FacetResp("ok", "object", "absent", <<>>),
      FacetResp("ok", "object", "null", <<>>),
      FacetResp("ok", "object", "number", <<>>),
      FacetResp("ok", "object", "string", <<Str(<<98>>), Str(<<97>>)>>),
      FacetResp("ok", "object", "object", <<Str(L_Elk)>>),
      FacetResp("ok", "object", "array", <<Str(L_Elk), NotStr>>) }

FailedResponses == TransportFailures \cup {UnparseableBody} \cup MisshapenBodies

\* the responses a run of gather_medicover_data is given
FacetResponses ==
    TransportFailures \cup
    { UnparseableBody, FacetResp("ok", "object", "absent", <<>>),
      Labels(<<L_Lodz, L_lodz, L_Elk>>), Labels(<<L_a_b>>), Labels(<<>>) }

\* the responses fetch_data alone is given
WideResponses ==
    FailedResponses \cup {Labels(l) : l \in SeqsUpTo(UpstreamLabels, MaxLabels)}

(***************************************************************************)
(* MedicoverScraper.get_data                                               *)
(***************************************************************************)
Returned(errors, d, items) ==
    [raised |-> "none", errors |-> errors, d |-> d, items |-> items]

Raised(exc) == [raised |-> exc, errors |-> 0, d |-> "absent", items |-> <<>>]

\* mutant: only a connection error is caught (except ConnectionError)
get_data_http_uncaught(resp) ==
    IF resp.outcome = "ConnectionError" THEN Returned(1, "array", <<>>)
    ELSE IF resp.outcome = "HTTPError" THEN Raised("HTTPError")
    ELSE IF resp.body = "invalid" THEN Raised("JSONDecodeError")
    ELSE IF resp.body # "object" THEN Raised("AttributeError")
    ELSE IF resp.d = "absent" THEN Returned(0, "array", <<>>)
    ELSE Returned(0, resp.d, resp.items)

get_data(resp) ==
    IF resp.outcome \in {"ConnectionError", "HTTPError"}
    THEN Returned(1, "array", <<>>)             \* except RequestException
    ELSE IF resp.body = "invalid" THEN Raised("JSONDecodeError")
    ELSE IF resp.body # "object" THEN Raised("AttributeError")
    ELSE IF resp.d = "absent" THEN Returned(0, "array", <<>>)
    ELSE Returned(0, resp.d, resp.items)

(***************************************************************************)
(* MedicoverScraper.fetch_data                                             *)
(***************************************************************************)
Fetched(errors, result) == [raised |-> "none", errors |-> errors, result |-> result]

FetchRaised(exc) == [raised |-> exc, errors |-> 0, result |-> <<>>]

\* mutant: the labels are sorted before they are normalized, and kept in a
\* list: [format_entry(entry) for entry in sorted(set(data))]
fetch_data_sorts_labels(resp) ==
    LET data == get_data(resp) IN
    IF data.raised # "none" THEN FetchRaised(data.raised)
    ELSE IF data.d \in {"null", "number"} THEN FetchRaised("TypeError")
    ELSE IF \E k \in 1..Len(data.items) : ~data.items[k].isstr
         THEN FetchRaised("AttributeError")
    ELSE LET raw == SortedStrs({data.items[k].s : k \in 1..Len(data.items)})
         IN  Fetched(data.errors, [k \in 1..Len(raw) |-> format_entry(raw[k])])

fetch_data(resp) ==
    LET data == get_data(resp) IN
    IF data.raised # "none" THEN FetchRaised(data.raised)
    ELSE IF data.d \in {"null", "number"} THEN FetchRaised("TypeError")
    ELSE IF \E k \in 1..Len(data.items) : ~data.items[k].isstr
         THEN FetchRaised("AttributeError")
    ELSE Fetched(data.errors,
                 SortedStrs({format_entry(data.items[k].s) : k \in 1..Len(data.items)}))

(***************************************************************************)
(* Responses of the directory listing (requests.get + BeautifulSoup).      *)
(* A page is the list of its doctors-box elements; an element has or       *)
(* lacks its first span (the name) and its doctor-facility element.        *)
(***************************************************************************)
Present(text) == [present |-> TRUE, text |-> text]
Absent == [present |-> FALSE, text |-> <<>>]

Box(span, facility) == [span |-> span, facility |-> facility]

\* the name the listing shows for entry n of page i of a pair: the initials
\* of the pair, " - ", the page digit and the entry digit, e.g. "el - 12"
NameText(profession, city, i, n) ==
    <<city[1], profession[1], SPACE, HYPHEN, SPACE, 48 + i, 48 + n>>

\* the facility the listing shows, e.g. " M|1 "
FacilityText(i) == <<SPACE, 77, PIPE, 48 + i, SPACE>>

PageKinds == {"RequestException", "Empty", "Mixed", "AllSkipped", "NoFacility"}

PageResp(outcome, boxes) == [outcome |-> outcome, boxes |-> boxes]

IrregularKinds == {"RequestException", "AllSkipped"}

\* the answers the site can still give after the page requests rq
KindsAfter(rq) ==
    IF Cardinality({n \in 1..Len(rq) : rq[n].kind \in IrregularKinds})
           < MaxIrregularPages
    THEN PageKinds
    ELSE PageKinds \ IrregularKinds

\* what the site answers to GET {basic_url}/{profession}/{city},sl,{i},s
PageResponse(kind, profession, city, i) ==
    CASE kind = "RequestException" -> PageResp("RequestException", <<>>)
      [] kind = "Empty" -> PageResp("ok", <<>>)
      [] kind = "Mixed" ->
            PageResp("ok", << Box(Present(NameText(profession, city, i, 1)),
                                  Present(FacilityText(i))),
                              Box(Absent, Present(FacilityText(i))),
                              Box(Present(NameText(profession, city, i, 2)),
                                  Present(FacilityText(i))) >>)
      [] kind = "AllSkipped" ->
            PageResp("ok", << Box(Absent, Present(FacilityText(i))) >>)
      [] kind = "NoFacility" ->
            PageResp("ok", << Box(Present(NameText(profession, city, i, 1)),
                                  Present(FacilityText(i))),
                              Box(Present(NameText(profession, city, i, 2)),
                                  Absent) >>)

(***************************************************************************)
(* MedicoverScraper.scrape_doctors                                         *)
(***************************************************************************)
\* mutant: the failure is swallowed without logger.error
scrape_doctors_silent(resp) ==
    IF resp.outcome = "RequestException"
    THEN [errors |-> 0, boxes |-> <<>>]
    ELSE [errors |-> 0, boxes |-> resp.boxes]

scrape_doctors(resp) ==
    IF resp.outcome = "RequestException"
    THEN [errors |-> 1, boxes |-> <<>>]         \* except RequestException
    ELSE [errors |-> 0, boxes |-> resp.boxes]   \* soup.find_all('doctors-box')

(***************************************************************************)
(* MedicoverScraper.extract_doctor_info                                    *)
(***************************************************************************)
HasName(doctor) == doctor.span.present

DoctorRecord(doctor) ==
    [imie |-> Replace(doctor.span.text, <<SPACE, HYPHEN, SPACE>>, <<HYPHEN>>),
     placowka |-> Strip(Replace(Replace(doctor.facility.text,
                                        <<SPACE, HYPHEN, SPACE>>, <<HYPHEN>>),
                                <<PIPE>>, <<HYPHEN>>))]

RECURSIVE Comprehension_until_nameless(_)
\* mutant: the first element without span ends the page (break, not skip)
Comprehension_until_nameless(boxes) ==
    IF boxes = <<>> THEN <<>>
    ELSE IF HasName(boxes[1])
         THEN <<DoctorRecord(boxes[1])>> \o Comprehension_until_nameless(Tail(boxes))
         ELSE <<>>

RECURSIVE Comprehension(_)
\* [record(doctor) for doctor in doctor_boxes if doctor.find('span')]
Comprehension(boxes) ==
    IF boxes = <<>> THEN <<>>
    ELSE IF HasName(boxes[1])
         THEN <<DoctorRecord(boxes[1])>> \o Comprehension(Tail(boxes))
         ELSE Comprehension(Tail(boxes))

\* doctor.find(class_='doctor-facility') is None and .text is read from it
FacilityMissing(boxes) ==
    \E k \in 1..Len(boxes) : HasName(boxes[k]) /\ ~boxes[k].facility.present

extract_doctor_info(doctor_boxes) ==
    IF FacilityMissing(doctor_boxes)
    THEN [raised |-> "AttributeError", records |-> <<>>]
    ELSE [raised |-> "none", records |-> Comprehension(doctor_boxes)]

(***************************************************************************)
(* State.                                                                  *)
(***************************************************************************)
VARIABLES
    pagination_limit,   \* self.pagination_limit
    pc,                 \* position in gather_medicover_data
    cities,             \* gather_medicover_data: cities
    professions,        \* gather_medicover_data: professions
    ci,                 \* index of the outer loop's city
    pj,                 \* index of the inner loop's profession
    i,                  \* scrape_doctors_info: i
    doctors_info,       \* scrape_doctors_info: doctors_info
    all_doctors_data,   \* gather_medicover_data: all_doctors_data
    raised,             \* the exception that left gather_medicover_data
    log,                \* the records the logger handled, in order
    cityResp,           \* history: the answer to the cities request
    profResp,           \* history: the answer to the professions request
    requests,           \* history: the page requests and their answers
    stores              \* history: the assignments all_doctors_data[c][p] = ..

vars == <<pagination_limit, pc, cities, professions, ci, pj, i, doctors_info,
          all_doctors_data, raised, log, cityResp, profResp, requests, stores>>

EmptyDict == [k \in {} |-> <<>>]

\* d[k] = v
Put(d, k, v) == [x \in DOMAIN d \cup {k} |-> IF x = k THEN v ELSE d[x]]

\* mutant: all_doctors_data[city] = {profession: doctors_info}
Slot_overwrite(tree, city, profession, result) ==
    Put(tree, city, [x \in {profession} |-> result])

\* all_doctors_data[city][profession] = doctors_info
Slot(tree, city, profession, result) ==
    Put(tree, city, Put(tree[city], profession, result))

Init ==
    /\ pagination_limit \in 1..MaxPaginationLimit
    /\ pc = "fetch_cities"
    /\ cities = <<>>
    /\ professions = <<>>
    /\ ci = 0
    /\ pj = 0
    /\ i = 0
    /\ doctors_info = <<>>
    /\ all_doctors_data = EmptyDict
    /\ raised = "none"
    /\ log = <<>>
    /\ cityResp = NoResp
    /\ profResp = NoResp
    /\ requests = <<>>
    /\ stores = <<>>

RECURSIVE Errors(_, _, _)
\* n calls of logger.error(f"Request error: {e}")
Errors(lg, n, ev) == IF n = 0 THEN lg ELSE Errors(Emit(lg, ev), n - 1, ev)

(***************************************************************************)
(* gather_medicover_data, lines 100-104: the two calls of fetch_data.      *)
(***************************************************************************)
FetchCitiesFrom(R) ==
    /\ pc = "fetch_cities"
    /\ \E resp \in R :
         LET f == fetch_data(resp) IN
         /\ cityResp' = resp
         /\ log' = Errors(log, f.errors,
                          Event(ERROR, "request_error", "cities", <<>>, <<>>, 0))
         /\ IF f.raised # "none"
            THEN /\ pc' = "raised"
                 /\ raised' = f.raised
                 /\ UNCHANGED cities
            ELSE /\ pc' = "fetch_professions"
                 /\ cities' = f.result
                 /\ UNCHANGED raised
    /\ UNCHANGED <<pagination_limit, professions, ci, pj, i, doctors_info,
                   all_doctors_data, profResp, requests, stores>>

FetchProfessionsFrom(R) ==
    /\ pc = "fetch_professions"
    /\ \E resp \in R :
         LET f == fetch_data(resp) IN
         /\ profResp' = resp
         /\ log' = Errors(log, f.errors,
                          Event(ERROR, "request_error", "professions", <<>>, <<>>, 0))
         /\ IF f.raised # "none"
            THEN /\ pc' = "raised"
                 /\ raised' = f.raised
                 /\ UNCHANGED <<professions, ci>>
            ELSE /\ pc' = "outer"
                 /\ professions' = f.result
                 /\ ci' = 1
                 /\ UNCHANGED raised
    /\ UNCHANGED <<pagination_limit, cities, pj, i, doctors_info,
                   all_doctors_data, cityResp, requests, stores>>

FetchCities == FetchCitiesFrom(FacetResponses)

FetchProfessions == FetchProfessionsFrom(FacetResponses)

(***************************************************************************)
(* gather_medicover_data, lines 106-112: the two loops.                    *)
(***************************************************************************)
\* for city in cities: all_doctors_data[city] = {}
BeginCity ==
    /\ pc = "outer"
    /\ ci <= Len(cities)
    /\ all_doctors_data' = Put(all_doctors_data, cities[ci], EmptyDict)
    /\ pj' = 1
    /\ pc' = "inner"
    /\ UNCHANGED <<pagination_limit, cities, professions, ci, i, doctors_info,
                   raised, log, cityResp, profResp, requests, stores>>

\* the outer loop is exhausted: return all_doctors_data
Return ==
    /\ pc = "outer"
    /\ ci > Len(cities)
    /\ pc' = "done"
    /\ UNCHANGED <<pagination_limit, cities, professions, ci, pj, i, doctors_info,
                   all_doctors_data, raised, log, cityResp, profResp, requests,
                   stores>>

\* mutant: the list of the previous call is used again
NewAccumulator_shared(previous) == previous

\* doctors_info: List[Dict[str, str]] = []: a new list, whatever the call
\* before left in its own
NewAccumulator(previous) == <<>>

\* for profession in professions: the call of scrape_doctors_info, line 125
BeginCrawl ==
    /\ pc = "inner"
    /\ pj <= Len(professions)
    /\ doctors_info' = NewAccumulator(doctors_info)
    /\ i' = 1
    /\ pc' = "crawl"
    /\ UNCHANGED <<pagination_limit, cities, professions, ci, pj,
                   all_doctors_data, raised, log, cityResp, profResp, requests,
                   stores>>

\* the inner loop is exhausted: the next city
EndCity ==
    /\ pc = "inner"
    /\ pj > Len(professions)
    /\ ci' = ci + 1
    /\ pc' = "outer"
    /\ UNCHANGED <<pagination_limit, cities, professions, pj, i, doctors_info,
                   all_doctors_data, raised, log, cityResp, profResp, requests,
                   stores>>

(***************************************************************************)
(* scrape_doctors_info, lines 126-141.                                     *)
(***************************************************************************)
\* range(1, self.pagination_limit)
PageRange(limit) == 1..(limit - 1)

\* if doctor_boxes:
HasBoxes(doctor_boxes) == doctor_boxes # <<>>

\* mutant: the page's records are put in front of the accumulator
Extend_prepend(acc, extracted_info) == extracted_info \o acc

\* doctors_info.extend(extracted_info)
Extend(acc, extracted_info) == acc \o extracted_info

\* mutant: the test is inverted (if doctors_info:)
NoteDue_inverted(acc) == acc # <<>>

\* mutant: the test is dropped, every break is noted
NoteDue_always(acc) == TRUE

\* if not doctors_info:
NoteDue(acc) == acc = <<>>

\* mutant: the loop variable never advances
NextPage_stuck(page) == page

\* the next value of the for loop
NextPage(page) == page + 1

\* history: a page request, the answer's kind, the number of entity
\* elements scrape_doctors returned for it and the records
\* extract_doctor_info returned for them
Request(city, profession, page, kind, found, records) ==
    [city |-> city, profession |-> profession, page |-> page, kind |-> kind,
     found |-> found, records |-> records]

\* one iteration of the for loop
FetchPage ==
    /\ pc = "crawl"
    /\ i \in PageRange(pagination_limit)
    /\ \E kind \in KindsAfter(requests) :
         LET city == cities[ci]
             profession == professions[pj]
             got == scrape_doctors(PageResponse(kind, profession, city, i))
             lg == Errors(log, got.errors,
                          Event(ERROR, "request_error", "page", city, profession, i))
             x == extract_doctor_info(got.boxes)
         IN
         /\ requests' = Append(requests,
                               Request(city, profession, i, kind, Len(got.boxes),
                                       IF HasBoxes(got.boxes) THEN x.records
                                       ELSE <<>>))
         /\ IF HasBoxes(got.boxes)
            THEN /\ log' = Emit(lg, Event(INFO, "page_found", "page",
                                          city, profession, i))
                 /\ IF x.raised # "none"
                    THEN /\ pc' = "raised"
                         /\ raised' = x.raised
                         /\ UNCHANGED <<doctors_info, i>>
                    ELSE /\ doctors_info' = Extend(doctors_info, x.records)
                         /\ i' = NextPage(i)
                         /\ UNCHANGED <<pc, raised>>
            ELSE /\ log' = IF NoteDue(doctors_info)
                           THEN note(lg, Event(NOTE, "no_doctors", "page",
                                               city, profession, i))
                           ELSE lg
                 /\ pc' = "crawled"                  \* break
                 /\ UNCHANGED <<doctors_info, i, raised>>
    /\ UNCHANGED <<pagination_limit, cities, professions, ci, pj,
                   all_doctors_data, cityResp, profResp, stores>>

\* the range is exhausted: the loop ends without a break
LoopExhausted ==
    /\ pc = "crawl"
    /\ i \notin PageRange(pagination_limit)
    /\ pc' = "crawled"
    /\ UNCHANGED <<pagination_limit, cities, professions, ci, pj, i, doctors_info,
                   all_doctors_data, raised, log, cityResp, profResp, requests,
                   stores>>

\* return doctors_info; all_doctors_data[city][profession] = doctors_info
StoreResult ==
    /\ pc = "crawled"
    /\ LET city == cities[ci]
           profession == professions[pj]
       IN /\ all_doctors_data' =
                Slot(all_doctors_data, city, profession, doctors_info)
          /\ stores' = Append(stores, [city |-> city, profession |-> profession,
                                       result |-> doctors_info])
    /\ pj' = pj + 1
    /\ pc' = "inner"
    /\ UNCHANGED <<pagination_limit, cities, professions, ci, i, doctors_info,
                   raised, log, cityResp, profResp, requests>>

Next ==
    \/ FetchCities
    \/ FetchProfessions
    \/ BeginCity
    \/ Return
    \/ BeginCrawl
    \/ EndCity
    \/ FetchPage
    \/ LoopExhausted
    \/ StoreResult

Spec == Init /\ [][Next]_vars

(***************************************************************************)
(* fetch_data on its own, over every list of upstream labels.              *)
(***************************************************************************)
ResolveCities == FetchCitiesFrom(WideResponses)

ResolveProfessions == FetchProfessionsFrom(WideResponses)

ResolveNext == ResolveCities \/ ResolveProfessions

ResolveSpec == Init /\ [][ResolveNext]_vars

(***************************************************************************)
(* format_entry on its own: the facet endpoint returns one label, any      *)
(* string over EntryAlphabet, or two spellings of a two-letter label.      *)
(***************************************************************************)
\* "A", "b", space, "-", "/", L stroke, o acute, ideographic space,
\* fullwidth solidus
EntryAlphabet == {65, 98, SPACE, HYPHEN, SLASH, 321, 243, 12288, 65295}

Entries == SeqsUpTo(EntryAlphabet, MaxEntryLen)

\* the ways a label's two words are separated: " - ", "-", " ", "  ",
\* " -", "- "
SingleHyphenStyles == { <<SPACE, HYPHEN, SPACE>>, <<HYPHEN>>, <<SPACE>> }

DoubleHyphenStyles == { <<SPACE, SPACE>>, <<SPACE, HYPHEN>>, <<HYPHEN, SPACE>> }

SeparatorStyles == SingleHyphenStyles \cup DoubleHyphenStyles

\* the spellings of a letter in case and diacritics: L, l, L stroke,
\* l stroke; O, o, O acute, o acute; E, e
LetterSpellings ==
    { {76, 108, 321, 322}, {79, 111, 211, 243}, {69, 101} }

FirstLetters == {76, 108, 321, 69}

LastLetters == {79, 243}

Styled(a, sep, b) == <<a>> \o sep \o <<b>>

StyledLabels ==
    {Styled(a, sep, b) : a \in FirstLetters, sep \in SeparatorStyles,
                         b \in LastLetters}

EntryResponses ==
    {Labels(<<x>>) : x \in Entries}
    \cup {Labels(<<x, y>>) : x \in StyledLabels, y \in StyledLabels}

NormalizeEntries == FetchCitiesFrom(EntryResponses)

NormalizeNext == NormalizeEntries

NormalizeSpec == Init /\ [][NormalizeNext]_vars

(***************************************************************************)
(* Vocabulary of the properties: what the history says about a facet pair. *)
(***************************************************************************)
Range(s) == {s[k] : k \in 1..Len(s)}

Pairs == Range(cities) \X Range(professions)

\* the requests of the pair, in the order they were issued
PairRequests(city, profession) ==
    LET OfPair(r) == r.city = city /\ r.profession = profession
    IN  SelectSeq(requests, OfPair)

\* the positions in rq of the requests of page j
At(rq, j) == {n \in 1..Len(rq) : rq[n].page = j}

\* the pages requested in rq
PagesOf(rq) == {rq[n].page : n \in 1..Len(rq)}

YieldsZero(r) == r.found = 0

\* the records extracted from the page of request r
RecordsOf(r) == r.records

RECURSIVE ConcatPages(_, _)
\* the records of pages 1..n of rq, in ascending page order
ConcatPages(rq, n) ==
    IF n = 0 THEN <<>>
    ELSE ConcatPages(rq, n - 1) \o RecordsOf(rq[CHOOSE m \in At(rq, n) : TRUE])

\* the crawl of the pair q has returned
HasReturned(q) ==
    \/ pc = "crawled" /\ cities[ci] = q[1] /\ professions[pj] = q[2]
    \/ \E n \in 1..Len(stores) : stores[n].city = q[1] /\ stores[n].profession = q[2]

\* the crawl of the pair q has returned result
CrawlReturned(q, result) ==
    \/ /\ pc = "crawled"
       /\ cities[ci] = q[1]
       /\ professions[pj] = q[2]
       /\ doctors_info = result
    \/ \E n \in 1..Len(stores) : /\ stores[n].city = q[1]
                                 /\ stores[n].profession = q[2]
                                 /\ stores[n].result = result

\* the number of records of the given level the logger handled for the pair
Logged(level, q) ==
    Cardinality({n \in 1..Len(log) : /\ log[n].level = level
                                     /\ log[n].endpoint = "page"
                                     /\ log[n].city = q[1]
                                     /\ log[n].profession = q[2]})

\* pages 1..k-1 of rq each held an entity element and page k held none
StoppedAt(rq, k) ==
    /\ \A j \in 1..(k - 1) : \E n \in At(rq, j) : ~YieldsZero(rq[n])
    /\ \E n \in At(rq, k) : YieldsZero(rq[n])

(***************************************************************************)
(* C1: if pages 1..k-1 of a pair each yield an entity element and page k   *)
(* yields none, no page after k is ever requested for the pair and the     *)
(* crawl returns the records of pages 1..k-1 concatenated in page order.   *)
(***************************************************************************)
C1_StopAtFirstEmptyPage ==
    \A q \in Pairs :
        LET rq == PairRequests(q[1], q[2]) IN
        \A k \in PagesOf(rq) :
            StoppedAt(rq, k) =>
                /\ \A j \in PagesOf(rq) : j <= k
                /\ CrawlReturned(q, ConcatPages(rq, k - 1))

\* pages 1 and 2 of a pair held records, page 3 was empty, and the four
\* records of pages 1 and 2 were stored; another pair stopped at page 1
\* although pages 2 and 3 were in the range
C1_Witness ==
    \E n, m \in 1..Len(stores) :
        /\ StoppedAt(PairRequests(stores[n].city, stores[n].profession), 3)
        /\ Len(stores[n].result) = 4
        /\ StoppedAt(PairRequests(stores[m].city, stores[m].profession), 1)
        /\ 3 \in PageRange(pagination_limit)

(***************************************************************************)
(* C2, as stated: a pair whose first page yields no entity, whatever the   *)
(* cause, returns the empty result with exactly one NOTE record and no     *)
(* error record.                                                           *)
(***************************************************************************)
C2_NoErrorWhateverTheCause ==
    \A q \in Pairs :
        StoppedAt(PairRequests(q[1], q[2]), 1) =>
            /\ CrawlReturned(q, <<>>)
            /\ Logged(NOTE, q) = 1
            /\ Logged(ERROR, q) = 0

(***************************************************************************)
(* C2, amended: a pair whose first page yields no entity returns the empty *)
(* result with exactly one NOTE record; it has no error record when the    *)
(* page was fetched and exactly one when the request failed.               *)
(***************************************************************************)
C2_OneNoteErrorOnlyForFailedRequest ==
    \A q \in Pairs :
        LET rq == PairRequests(q[1], q[2]) IN
        StoppedAt(rq, 1) =>
            /\ CrawlReturned(q, <<>>)
            /\ Logged(NOTE, q) = 1
            /\ Logged(ERROR, q) =
                  IF \E n \in At(rq, 1) : rq[n].kind = "RequestException"
                  THEN 1 ELSE 0

\* the first page of a pair failed, the first page of another was empty,
\* and both results are stored
C2_Witness ==
    \E a, b \in 1..Len(stores) :
        /\ \E r \in Range(PairRequests(stores[a].city, stores[a].profession)) :
              r.page = 1 /\ r.kind = "RequestException"
        /\ \E r \in Range(PairRequests(stores[b].city, stores[b].profession)) :
              r.page = 1 /\ r.kind = "Empty"

(***************************************************************************)
(* C3, as stated: pagination_limit is an inclusive bound. When every page  *)
(* of a pair yields an entity element, exactly the pages                   *)
(* 1..pagination_limit are requested, and the crawl returns their records  *)
(* with no NOTE and no error record.                                       *)
(***************************************************************************)
C3_LimitIsInclusive ==
    \A q \in Pairs :
        LET rq == PairRequests(q[1], q[2]) IN
        (HasReturned(q) /\ \A n \in 1..Len(rq) : ~YieldsZero(rq[n]))
        => /\ PagesOf(rq) = 1..pagination_limit
           /\ CrawlReturned(q, ConcatPages(rq, pagination_limit))
           /\ Logged(NOTE, q) = 0
           /\ Logged(ERROR, q) = 0

(***************************************************************************)
(* C4, as stated: fetch_data never raises, whether the upstream failure is *)
(* a transport error, a non-success status, an unparseable body or a body  *)
(* that is not an object whose d is a sequence of strings. (The claim adds *)
(* that the failure is reported and the FacetSet empty; the part stated    *)
(* here is already violated.)                                              *)
(***************************************************************************)
C4_ResolveNeverRaises ==
    (cityResp \in FailedResponses \/ profResp \in FailedResponses)
    => raised = "none"

(***************************************************************************)
(* C5: when the request of one dimension fails in transport and the other  *)
(* succeeds, gather_medicover_data raises nothing, requests no page, runs  *)
(* to its return, and the tree it returns has no entry for the failed      *)
(* dimension's facets.                                                     *)
(***************************************************************************)
Succeeded(resp) ==
    /\ resp.outcome = "ok"
    /\ resp.body = "object"
    /\ resp.d = "array"
    /\ \A k \in 1..Len(resp.items) : resp.items[k].isstr

C5_OneDimensionFails ==
    ( \/ cityResp \in TransportFailures /\ Succeeded(profResp)
      \/ Succeeded(cityResp) /\ profResp \in TransportFailures )
    => /\ raised = "none"
       /\ requests = <<>>
       /\ pc = "done" \/ ENABLED Next
       /\ pc = "done" =>
             /\ cityResp \in TransportFailures => DOMAIN all_doctors_data = {}
             /\ profResp \in TransportFailures =>
                   /\ DOMAIN all_doctors_data = Range(cities)
                   /\ \A c \in Range(cities) : DOMAIN all_doctors_data[c] = {}

\* the professions request failed after two cities were resolved, and
\* gather_medicover_data has returned
C5_Witness ==
    /\ pc = "done"
    /\ profResp \in TransportFailures
    /\ Len(cities) = 2

(***************************************************************************)
(* C6: when gather_medicover_data returns, the keys of the tree are the    *)
(* resolved cities, the keys under each city are the resolved professions, *)
(* every slot was written exactly once and holds what the crawl of its     *)
(* pair returned, the empty list included. Example: cities [elk, lodz],    *)
(* professions [a-b], page 1 of (elk, a-b) is empty, page 1 of (lodz, a-b) *)
(* has two records and page 2 none: the tree is                            *)
(* {elk: {a-b: []}, lodz: {a-b: [rec1, rec2]}} with one NOTE, for elk.     *)
(***************************************************************************)
F_elk == <<101, 108, 107>>
F_lodz == <<108, 111, 100, 122>>
F_a_b == <<97, HYPHEN, 98>>

WritesOf(q) ==
    {n \in 1..Len(stores) : stores[n].city = q[1] /\ stores[n].profession = q[2]}

ExampleRun ==
    /\ pc = "done"
    /\ cities = <<F_elk, F_lodz>>
    /\ professions = <<F_a_b>>
    /\ Len(requests) = 3
    /\ requests[1].kind = "Empty"
    /\ requests[2].kind = "Mixed"
    /\ requests[3].kind = "Empty"

ExampleTree ==
    [c \in {F_elk, F_lodz} |->
        [p \in {F_a_b} |->
            IF c = F_elk THEN <<>>
            ELSE << [imie |-> <<108, 97, HYPHEN, 49, 49>>,
                     placowka |-> <<77, HYPHEN, 49>>],
                    [imie |-> <<108, 97, HYPHEN, 49, 50>>,
                     placowka |-> <<77, HYPHEN, 49>>] >>]]

C6_TreeHoldsEveryPairOnce ==
    pc = "done" =>
        /\ DOMAIN all_doctors_data = Range(cities)
        /\ \A c \in Range(cities) : DOMAIN all_doctors_data[c] = Range(professions)
        /\ \A q \in Pairs :
              /\ Cardinality(WritesOf(q)) = 1
              /\ \A n \in WritesOf(q) :
                    all_doctors_data[q[1]][q[2]] = stores[n].result
        /\ ExampleRun =>
              /\ all_doctors_data = ExampleTree
              /\ Logged(NOTE, <<F_elk, F_a_b>>) = 1
              /\ Logged(NOTE, <<F_lodz, F_a_b>>) = 0

\* the run of the example has returned
C6_Witness == ExampleRun

(***************************************************************************)
(* C7: the run is sequential and its request order is determined. Pairs    *)
(* are crawled in lexicographic order, cities in the outer loop; the pages *)
(* of a pair are requested in ascending order from 1 without a gap; a pair *)
(* is started only when the pair before it has returned and is stored; and *)
(* at the return the requests and the tree are the ones the answers        *)
(* determine: every pair was crawled up to its first page without entity   *)
(* or to the end of the range, and its slot holds the records of its       *)
(* pages in page order.                                                    *)
(***************************************************************************)
\* a < b in lexicographic order on code points
LexLess(a, b) ==
    \E k \in 1..(Len(b)) :
        /\ k <= Len(a) + 1
        /\ \A m \in 1..(k - 1) : a[m] = b[m]
        /\ k = Len(a) + 1 \/ a[k] < b[k]

SamePair(r, t) == r.city = t.city /\ r.profession = t.profession

PairLess(r, t) ==
    \/ LexLess(r.city, t.city)
    \/ r.city = t.city /\ LexLess(r.profession, t.profession)

RECURSIVE AllRecords(_)
\* the records of the requests rq, in the order of the requests
AllRecords(rq) ==
    IF rq = <<>> THEN <<>>
    ELSE AllRecords(SubSeq(rq, 1, Len(rq) - 1)) \o RecordsOf(rq[Len(rq)])

RequestsInOrder ==
    \A n \in 1..(Len(requests) - 1) :
        \/ /\ SamePair(requests[n], requests[n + 1])
           /\ requests[n + 1].page = requests[n].page + 1
        \/ /\ PairLess(requests[n], requests[n + 1])
           /\ requests[n + 1].page = 1
           /\ \E m \in 1..Len(stores) : SamePair(stores[m], requests[n])

FirstRequestIsPageOne == requests # <<>> => requests[1].page = 1

StoresInOrder ==
    \A n \in 1..(Len(stores) - 1) : PairLess(stores[n], stores[n + 1])

\* the requests of the pair are the ones its answers determine
CrawledToTheEnd(rq) ==
    /\ PageRange(pagination_limit) # {} => rq # <<>>
    /\ \A n \in 1..(Len(rq) - 1) : ~YieldsZero(rq[n])
    /\ rq # <<>> =>
          \/ YieldsZero(rq[Len(rq)])
          \/ rq[Len(rq)].page + 1 \notin PageRange(pagination_limit)

C7_SequentialDeterministicOrder ==
    /\ RequestsInOrder
    /\ FirstRequestIsPageOne
    /\ StoresInOrder
    /\ pc = "done" =>
          /\ \A q \in Pairs : CrawledToTheEnd(PairRequests(q[1], q[2]))
          /\ all_doctors_data =
                [c \in Range(cities) |->
                    [p \in Range(professions) |-> AllRecords(PairRequests(c, p))]]

\* a run over two cities and two professions has returned, with records in
\* the slots of the first and of the last pair
C7_Witness ==
    /\ pc = "done"
    /\ Len(cities) = 2
    /\ Len(professions) = 2
    /\ Len(stores) = 4
    /\ stores[1].result # <<>>
    /\ stores[4].result # <<>>
    /\ Len(requests) >= 6

(***************************************************************************)
(* C8, as stated: no error is fatal to the run. Stated for the runs whose  *)
(* two facet requests succeeded: whatever the pages and their entity       *)
(* elements are, gather_medicover_data raises nothing.                     *)
(***************************************************************************)
C8_NoFatalError ==
    (Succeeded(cityResp) /\ Succeeded(profResp)) => raised = "none"

(***************************************************************************)
(* C9: no pair is asked for more than pagination_limit pages, and no path  *)
(* loops forever: every step of the run strictly decreases a rank in a     *)
(* well-founded order (lexicographic, on tuples of naturals), and a state  *)
(* that is not terminal always has a next step, so every crawl and the run *)
(* end after finitely many steps.                                          *)
(***************************************************************************)
WithinLimit ==
    \A q \in Pairs : Len(PairRequests(q[1], q[2])) <= pagination_limit

Terminal == pc \in {"done", "raised"}

\* the pages of the range the crawl has not reached yet
PagesLeft == Cardinality({j \in PageRange(pagination_limit) : j >= i})

\* <<phase, cities left, before the city's loop, professions left,
\*   before the crawl, pages left, inside the crawl's loop>>
Rank ==
    CASE pc = "fetch_cities" -> <<3, 0, 0, 0, 0, 0, 0>>
      [] pc = "fetch_professions" -> <<2, 0, 0, 0, 0, 0, 0>>
      [] pc = "outer" -> <<1, Len(cities) + 1 - ci, 1, 0, 0, 0, 0>>
      [] pc = "inner" ->
            <<1, Len(cities) + 1 - ci, 0, Len(professions) + 1 - pj, 1, 0, 0>>
      [] pc = "crawl" ->
            <<1, Len(cities) + 1 - ci, 0, Len(professions) + 1 - pj, 0,
              PagesLeft, 1>>
      [] pc = "crawled" ->
            <<1, Len(cities) + 1 - ci, 0, Len(professions) + 1 - pj, 0,
              PagesLeft, 0>>
      [] OTHER -> <<0, 0, 0, 0, 0, 0, 0>>

\* x < y in the lexicographic order on tuples of the same length
RankLess(x, y) ==
    \E k \in 1..Len(y) : x[k] < y[k] /\ \A m \in 1..(k - 1) : x[m] = y[m]

C9_Terminates ==
    /\ [](/\ WithinLimit
          /\ \A k \in 1..Len(Rank) : Rank[k] \in Nat
          /\ Terminal \/ ENABLED Next)
    /\ [][RankLess(Rank', Rank)]_vars

\* a run has returned in which the end of the range, not an empty page,
\* ended a crawl of three pages
C9_Witness ==
    /\ pc = "done"
    /\ pagination_limit = 4
    /\ \E n \in 1..Len(stores) :
          LET rq == PairRequests(stores[n].city, stores[n].profession) IN
          Len(rq) = 3 /\ \A m \in 1..3 : ~YieldsZero(rq[m])

(***************************************************************************)
(* C10: the FacetSet fetch_data returns is in strictly ascending           *)
(* lexicographic order, hence without duplicate, and holds exactly the     *)
(* normalized upstream labels.                                             *)
(***************************************************************************)
StrictlyAscending(facets) ==
    \A k \in 1..(Len(facets) - 1) : LexLess(facets[k], facets[k + 1])

Normalized(resp) ==
    {format_entry(resp.items[k].s) : k \in 1..Len(resp.items)}

C10_SortedNoDuplicates ==
    /\ StrictlyAscending(cities)
    /\ StrictlyAscending(professions)
    /\ (Succeeded(cityResp) /\ pc # "fetch_cities") =>
          Range(cities) = Normalized(cityResp)
    /\ (Succeeded(profResp) /\ pc \notin {"fetch_cities", "fetch_professions"}) =>
          Range(professions) = Normalized(profResp)

\* two labels that collide after normalization gave one city, and two
\* labels in descending order gave two professions in ascending order
C10_Witness ==
    /\ cityResp = Labels(<<L_Lodz, L_lodz>>)
    /\ cities = <<F_lodz>>
    /\ profResp = Labels(<<L_lodz, L_A_B>>)
    /\ professions = <<F_a_b, F_lodz>>

(***************************************************************************)
(* Vocabulary of C11: two labels of two one-letter words differ only in    *)
(* case, diacritics or whitespace style when their letters are spellings   *)
(* of the same letters; what separates the letters is the style.           *)
(***************************************************************************)
SameLetter(c, d) == \E S \in LetterSpellings : c \in S /\ d \in S

SameWords(x, y) == SameLetter(x[1], y[1]) /\ SameLetter(x[Len(x)], y[Len(y)])

StyleOf(x) == SubSeq(x, 2, Len(x) - 1)

\* fetch_data was given two labels and has returned
TwoSpellings == pc # "fetch_cities" /\ Len(cityResp.items) = 2

(***************************************************************************)
(* C11, as stated: two labels that differ only in case, in diacritics or   *)
(* in whitespace style (" - ", "-", one space, several spaces, a space on  *)
(* one side of a hyphen) are normalized to the same FacetId.               *)
(***************************************************************************)
C11_VariantsCollapse ==
    TwoSpellings =>
        LET x == cityResp.items[1].s
            y == cityResp.items[2].s
        IN  SameWords(x, y) => Len(cities) = 1

(***************************************************************************)
(* C11, amended: two labels that differ only in case, in diacritics or in  *)
(* being separated by " - ", by "-" or by one space are normalized to the  *)
(* same FacetId; a label separated by several spaces or by a space on one  *)
(* side of a hyphen is normalized to another FacetId than these.           *)
(***************************************************************************)
C11_SingleHyphenStylesCollapse ==
    TwoSpellings =>
        LET x == cityResp.items[1].s
            y == cityResp.items[2].s
        IN  SameWords(x, y) =>
              /\ (StyleOf(x) \in SingleHyphenStyles
                   /\ StyleOf(y) \in SingleHyphenStyles) => Len(cities) = 1
              /\ (StyleOf(x) \in SingleHyphenStyles
                   /\ StyleOf(y) \in DoubleHyphenStyles) => Len(cities) = 2

\* "L - o" with L stroke and o acute, and "l O", gave the one city "l-o"
C11_Witness ==
    /\ cityResp = Labels(<< <<321, SPACE, HYPHEN, SPACE, 243>>,
                            <<108, SPACE, 79>> >>)
    /\ cities = << <<108, HYPHEN, 111>> >>

(***************************************************************************)
(* C12: format_entry is idempotent, and what it returns holds no space, no *)
(* slash, no uppercase letter and no code point outside ASCII.             *)
(***************************************************************************)
UrlSafe(c) == c < 128 /\ c \notin {SPACE, SLASH} /\ ~(c >= 65 /\ c <= 90)

C12_IdempotentUrlSafe ==
    pc # "fetch_cities" =>
        \A k \in 1..Len(cities) :
            /\ format_entry(cities[k]) = cities[k]
            /\ \A m \in 1..Len(cities[k]) : UrlSafe(cities[k][m])

\* L stroke, ideographic space, fullwidth solidus: unidecode made "L /" of
\* it and format_entry "l--"
C12_Witness ==
    /\ cityResp = Labels(<< <<321, 12288, 65295>> >>)
    /\ cities = << <<108, HYPHEN, HYPHEN>> >>

(***************************************************************************)
(* C13: a transport failure on page k of a pair counts as a page without   *)
(* entity. The page is requested once and is the pair's last request, the  *)
(* crawl returns the records of pages 1..k-1, one error record is logged   *)
(* for the pair, nothing is raised by it, and the request that follows is  *)
(* page 1 of another pair, made after the failed pair's result is stored.  *)
(***************************************************************************)
C13_TransportFailureStopsCrawl ==
    \A g \in 1..Len(requests) :
        requests[g].kind = "RequestException" =>
            LET r == requests[g]
                q == <<r.city, r.profession>>
                rq == PairRequests(r.city, r.profession)
            IN  /\ YieldsZero(r)
                /\ Len(rq) = r.page
                /\ \A n \in 1..Len(rq) : rq[n].page = n
                /\ CrawlReturned(q, ConcatPages(rq, r.page - 1))
                /\ Logged(ERROR, q) = 1
                /\ g = Len(requests) => raised = "none"
                /\ g < Len(requests) =>
                      /\ requests[g + 1].page = 1
                      /\ ~SamePair(requests[g + 1], r)
                      /\ WritesOf(q) # {}

\* the request of page 2 of a pair failed, the two records of its page 1
\* were stored, and a later pair was crawled and stored with records
C13_Witness ==
    \E a, b \in 1..Len(stores) :
        /\ a < b
        /\ \E r \in Range(PairRequests(stores[a].city, stores[a].profession)) :
              r.page = 2 /\ r.kind = "RequestException"
        /\ Len(stores[a].result) = 2
        /\ stores[b].result # <<>>

(***************************************************************************)
(* C14, as stated: the NOTE is recorded only when the page without entity  *)
(* that stops the crawl is page 1; no NOTE names a later page, even when   *)
(* the pages before it contributed no record.                              *)
(***************************************************************************)
C14_NoteOnlyOnFirstPage ==
    \A n \in 1..Len(log) : log[n].level = NOTE => log[n].page = 1

(***************************************************************************)
(* C14, amended: the NOTE is recorded exactly when a page without entity   *)
(* stops the crawl while no record is accumulated for the pair. That is    *)
(* always so on page 1, and on a later page when every entity element of   *)
(* the pages before it lacked the name; a pair has at most one NOTE, and   *)
(* none when a record is accumulated or when the range ran out.            *)
(***************************************************************************)
NotesOf(q) ==
    {n \in 1..Len(log) : /\ log[n].level = NOTE
                         /\ log[n].city = q[1]
                         /\ log[n].profession = q[2]}

C14_NoteIffNothingAccumulated ==
    \A q \in Pairs :
        LET rq == PairRequests(q[1], q[2])
            stopped == rq # <<>> /\ YieldsZero(rq[Len(rq)])
        IN  /\ (stopped /\ AllRecords(rq) = <<>>) =>
                  /\ Cardinality(NotesOf(q)) = 1
                  /\ \A n \in NotesOf(q) : log[n].page = rq[Len(rq)].page
            /\ ~(stopped /\ AllRecords(rq) = <<>>) => NotesOf(q) = {}

\* a pair whose page 1 held only elements without name and whose page 2
\* was empty has its NOTE, for page 2; another pair, with records on page
\* 1 and an empty page 2, is stored and has none
C14_Witness ==
    /\ \E n \in 1..Len(log) : log[n].level = NOTE /\ log[n].page = 2
    /\ \E a \in 1..Len(stores) :
          LET rq == PairRequests(stores[a].city, stores[a].profession) IN
          /\ Len(rq) = 2
          /\ rq[1].kind = "Mixed"
          /\ rq[2].kind = "Empty"
          /\ NotesOf(<<stores[a].city, stores[a].profession>>) = {}

(***************************************************************************)
(* C15: an entity element without the name is skipped silently. A page of  *)
(* a named, a nameless and a named element gives the records of the two    *)
(* named elements in page order, a page of one nameless element gives no   *)
(* record; neither gives an error record nor raises; the page counts as    *)
(* found, its records are appended to the accumulator, and the crawl goes  *)
(* on to the next page of the pair whenever that page is in the range.     *)
(***************************************************************************)
\* the record of the named element n of the page of request r
NamedRecord(r, n) ==
    [imie |-> <<r.city[1], r.profession[1], HYPHEN, 48 + r.page, 48 + n>>,
     placowka |-> <<77, HYPHEN, 48 + r.page>>]

PageEvents(level, r) ==
    {n \in 1..Len(log) : /\ log[n].level = level
                         /\ log[n].endpoint = "page"
                         /\ log[n].city = r.city
                         /\ log[n].profession = r.profession
                         /\ log[n].page = r.page}

\* the loop of scrape_doctors_info is running for the pair of request r
InCrawlOf(r) ==
    pc = "crawl" /\ cities[ci] = r.city /\ professions[pj] = r.profession

C15_NamelessElementSkipped ==
    \A g \in 1..Len(requests) :
        LET r == requests[g] IN
        r.kind \in {"Mixed", "AllSkipped"} =>
            /\ r.kind = "Mixed" =>
                  r.found = 3 /\ RecordsOf(r) = <<NamedRecord(r, 1), NamedRecord(r, 2)>>
            /\ r.kind = "AllSkipped" => r.found = 1 /\ RecordsOf(r) = <<>>
            /\ PageEvents(ERROR, r) = {}
            /\ Cardinality(PageEvents(INFO, r)) = 1
            /\ g = Len(requests) =>
                  /\ raised = "none"
                  /\ InCrawlOf(r) =>
                        /\ i = r.page + 1
                        /\ doctors_info = AllRecords(PairRequests(r.city, r.profession))
                  /\ r.page + 1 \in PageRange(pagination_limit) => InCrawlOf(r)
            /\ g < Len(requests) =>
                  \/ /\ SamePair(requests[g + 1], r)
                     /\ requests[g + 1].page = r.page + 1
                  \/ r.page + 1 \notin PageRange(pagination_limit)

\* page 1 of a pair held only a nameless element, page 2 was requested and
\* held two named elements and a nameless one, and the pair is stored with
\* the two records of page 2
C15_Witness ==
    \E g \in 1..(Len(requests) - 1) :
        /\ requests[g].kind = "AllSkipped"
        /\ requests[g].page = 1
        /\ requests[g + 1].kind = "Mixed"
        /\ SamePair(requests[g], requests[g + 1])
        /\ \E a \in 1..Len(stores) :
              /\ SamePair(stores[a], requests[g])
              /\ stores[a].result =
                    <<NamedRecord(requests[g + 1], 1), NamedRecord(requests[g + 1], 2)>>

(***************************************************************************)
(* C16: facet pairs share no crawl state. While the loop of a pair runs,   *)
(* the accumulator holds exactly the records of the pair's own pages so    *)
(* far and the page counter is one more than the pair's requests, so a     *)
(* crawl starts from the empty list and page 1; a stored result holds      *)
(* exactly the records of its own pair's pages, each named after the pair; *)
(* and no step changes or removes a slot the tree already has.             *)
(***************************************************************************)
\* the record was extracted from a page of the pair (city, profession)
FromPair(rec, city, profession) ==
    rec.imie[1] = city[1] /\ rec.imie[2] = profession[1]

OwnStateOnly ==
    /\ pc = "crawl" =>
          LET rq == PairRequests(cities[ci], professions[pj]) IN
          /\ doctors_info = AllRecords(rq)
          /\ i = Len(rq) + 1
    /\ \A n \in 1..Len(stores) :
          /\ stores[n].result =
                AllRecords(PairRequests(stores[n].city, stores[n].profession))
          /\ \A k \in 1..Len(stores[n].result) :
                FromPair(stores[n].result[k], stores[n].city, stores[n].profession)
          /\ all_doctors_data[stores[n].city][stores[n].profession] = stores[n].result

SlotsKept ==
    \A c \in DOMAIN all_doctors_data :
        \A p \in DOMAIN all_doctors_data[c] :
            /\ c \in DOMAIN all_doctors_data'
            /\ p \in DOMAIN all_doctors_data'[c]
            /\ all_doctors_data'[c][p] = all_doctors_data[c][p]

C16_PairsShareNoState == []OwnStateOnly /\ [][SlotsKept]_vars

\* four pairs are stored; the first and the last hold records of their own
\* pages, the two between them are empty
C16_Witness ==
    /\ Len(stores) = 4
    /\ Len(stores[1].result) = 2
    /\ stores[2].result = <<>>
    /\ stores[3].result = <<>>
    /\ Len(stores[4].result) >= 2
    /\ stores[1].result[1] # stores[4].result[1]

====
